---- MODULE Spec2Model ----
(***************************************************************************)
(* Model of the route composer and the vehicle position simulator of the   *)
(* transit application (project/app/services/live_service.py,              *)
(* project/app/services/routing_service.py, project/app/main.py and the    *)
(* repositories they call).                                                *)
(*                                                                         *)
(* Instants are whole seconds since an arbitrary epoch.  A Python dict is  *)
(* a TLA+ function whose DOMAIN is the set of keys present, so that        *)
(* d.get(k) of a missing key is a test on DOMAIN.                          *)
(***************************************************************************)
EXTENDS Integers, Sequences, FiniteSets, TLC

\* ------------------------------------------------------------------------
\* Bounds of the model
\* ------------------------------------------------------------------------
\* longest itinerary (number of stops) drawn for a line
MaxStops == 4
\* instants are 0, 50, ..., 50 * MaxTicks
MaxTicks == 14
\* longest itinerary the sync job builds for the line of the live requests
MaxLiveStops == 3
\* the clock of the live requests reads 0, 150, ..., 150 * MaxLiveTicks
MaxLiveTicks == 3
\* most relationships in a drawn topology graph
MaxEdges == 3
\* the clock of the concurrent requests reads 0, 150, ..., 150 * MaxConcTicks
MaxConcTicks == 4
\* most relationships in the graph of overlapping route requests
MaxConcEdges == 1

\* ------------------------------------------------------------------------
\* Values
\* ------------------------------------------------------------------------
\* segment_start is None (no timestamp); every real instant is >= 0
NoTs == 0 - 1

\* fallback travel time of a segment whose avgStopSec is 0 or missing
DefaultTravelS == 300

Times == {50 * k : k \in 0..MaxTicks}

\* avgStopSec of the entries after the first: the scheduled time from the
\* stop before (the first entry has no predecessor and gets 0)
AvgVals == {100, 300}

Min(a, b) == IF a < b THEN a ELSE b
Max(a, b) == IF a > b THEN a ELSE b

\* itinerary entry number i: {stop_id, seq, avgStopSec}.  The sync job gives
\* the first entry avgStopSec 0 (it has no predecessor); a later entry has a
\* scheduled time or no avgStopSec at all.
EntrySet(i) ==
    IF i = 1 THEN {[stop_id |-> i, seq |-> i, avgStopSec |-> 0]}
    ELSE {[stop_id |-> i, seq |-> i]} \cup
         {[stop_id |-> i, seq |-> i, avgStopSec |-> a] : a \in AvgVals}

RECURSIVE ItinerariesOfLen(_)
ItinerariesOfLen(n) ==
    IF n = 0 THEN {<< >>}
    ELSE {Append(p, e) : p \in ItinerariesOfLen(n - 1), e \in EntrySet(n)}

Itineraries == UNION {ItinerariesOfLen(n) : n \in 0..MaxStops}

\* ------------------------------------------------------------------------
\* _advance_segment (live_service.py and its copy in main.py)
\* ------------------------------------------------------------------------
\* Python list indexing lst[i]: 0-based, a negative i counts from the end
InRange(lst, i) == 0 - Len(lst) <= i /\ i < Len(lst)
PyAt(lst, i) == lst[IF i < 0 THEN Len(lst) + i + 1 ELSE i + 1]

\* int(itinerary[idx].get("avgStopSec") or 300)
TravelS(itinerary, idx) ==
    LET e == PyAt(itinerary, idx)
    IN  IF "avgStopSec" \in DOMAIN e /\ e.avgStopSec # 0
        THEN e.avgStopSec
        ELSE DefaultTravelS

\* mutant: an `if` in place of the `while`: at most one segment is consumed
\* per call
AdvanceLoopOnce(itinerary, idx, segment_start, now, steps, wraps) ==
    LET travel_s == TravelS(itinerary, idx)
        elapsed  == now - segment_start
        last     == idx + 1 >= Len(itinerary) - 1
        idx2     == IF last THEN 0 ELSE idx + 1
    IN  IF elapsed < travel_s
        THEN [idx |-> idx, segment_start |-> segment_start,
              elapsed |-> elapsed, travel_s |-> travel_s,
              steps |-> steps, wraps |-> wraps]
        ELSE [idx |-> idx2, segment_start |-> segment_start + travel_s,
              elapsed |-> elapsed - travel_s,
              travel_s |-> TravelS(itinerary, idx2),
              steps |-> steps + 1,
              wraps |-> IF last THEN wraps + 1 ELSE wraps]

\* mutant: the wrap test is off by one (idx >= len(itinerary) - 2), so the
\* index returns to 0 before the last segment is reached
RECURSIVE AdvanceLoopEarlyWrap(_, _, _, _, _, _)
AdvanceLoopEarlyWrap(itinerary, idx, segment_start, now, steps, wraps) ==
    LET travel_s == TravelS(itinerary, idx)
        elapsed  == now - segment_start
    IN  IF elapsed < travel_s
        THEN [idx |-> idx, segment_start |-> segment_start,
              elapsed |-> elapsed, travel_s |-> travel_s,
              steps |-> steps, wraps |-> wraps]
        ELSE IF idx + 1 >= Len(itinerary) - 2
             THEN AdvanceLoopEarlyWrap(itinerary, 0, segment_start + travel_s,
                      now, steps + 1,
                      IF idx = Len(itinerary) - 2 THEN wraps + 1 ELSE wraps)
             ELSE AdvanceLoopEarlyWrap(itinerary, idx + 1,
                      segment_start + travel_s, now, steps + 1, wraps)

\* mutant: a consumed segment moves segment_start by half its travel time
RECURSIVE AdvanceLoopHalfCarry(_, _, _, _, _, _)
AdvanceLoopHalfCarry(itinerary, idx, segment_start, now, steps, wraps) ==
    LET travel_s == TravelS(itinerary, idx)
        elapsed  == now - segment_start
    IN  IF elapsed < travel_s
        THEN [idx |-> idx, segment_start |-> segment_start,
              elapsed |-> elapsed, travel_s |-> travel_s,
              steps |-> steps, wraps |-> wraps]
        ELSE IF idx + 1 >= Len(itinerary) - 1
             THEN AdvanceLoopHalfCarry(itinerary, 0,
                      segment_start + travel_s \div 2, now, steps + 1, wraps + 1)
             ELSE AdvanceLoopHalfCarry(itinerary, idx + 1,
                      segment_start + travel_s \div 2, now, steps + 1, wraps)

\* mutant: on leaving a segment the new segment starts at now (the time
\* already spent in it is dropped) instead of segment_start + travel_s
AdvanceLoopRestart(itinerary, idx, segment_start, now, steps, wraps) ==
    LET travel_s == TravelS(itinerary, idx)
        elapsed  == now - segment_start
        last     == idx + 1 >= Len(itinerary) - 1
        idx2     == IF last THEN 0 ELSE idx + 1
    IN  IF elapsed < travel_s
        THEN [idx |-> idx, segment_start |-> segment_start,
              elapsed |-> elapsed, travel_s |-> travel_s,
              steps |-> steps, wraps |-> wraps]
        ELSE [idx |-> idx2, segment_start |-> now, elapsed |-> 0,
              travel_s |-> TravelS(itinerary, idx2),
              steps |-> steps + 1,
              wraps |-> IF last THEN wraps + 1 ELSE wraps]

\* the while True loop; steps counts the iterations that moved to the next
\* segment, wraps those that left the last segment (len - 2) for segment 0
RECURSIVE AdvanceLoop(_, _, _, _, _, _)
AdvanceLoop(itinerary, idx, segment_start, now, steps, wraps) ==
    LET travel_s == TravelS(itinerary, idx)
        elapsed  == now - segment_start
    IN  IF elapsed < travel_s
        THEN [idx |-> idx, segment_start |-> segment_start,
              elapsed |-> elapsed, travel_s |-> travel_s,
              steps |-> steps, wraps |-> wraps]
        ELSE IF idx + 1 >= Len(itinerary) - 1
             THEN AdvanceLoop(itinerary, 0, segment_start + travel_s, now,
                              steps + 1, wraps + 1)
             ELSE AdvanceLoop(itinerary, idx + 1, segment_start + travel_s, now,
                              steps + 1, wraps)

\* mutant: the index is clamped from above only (min without max)
AdvanceSegmentNoFloor(itinerary, idx, segment_start, now) ==
    IF Len(itinerary) < 2
    THEN [idx |-> 0, segment_start |-> now, elapsed |-> 0, travel_s |-> 0,
          steps |-> 0, wraps |-> 0]
    ELSE LET start   == IF segment_start = NoTs THEN now ELSE segment_start
             clamped == Min(idx, Len(itinerary) - 2)
         IN  AdvanceLoop(itinerary, clamped, start, now, 0, 0)

AdvanceSegment(itinerary, idx, segment_start, now) ==
    IF Len(itinerary) < 2
    THEN [idx |-> 0, segment_start |-> now, elapsed |-> 0, travel_s |-> 0,
          steps |-> 0, wraps |-> 0]
    ELSE LET start   == IF segment_start = NoTs THEN now ELSE segment_start
             clamped == Max(0, Min(idx, Len(itinerary) - 2))
         IN  AdvanceLoop(itinerary, clamped, start, now, 0, 0)

\* ------------------------------------------------------------------------
\* State
\* ------------------------------------------------------------------------
VARIABLES
    advItin,    \* the itinerary passed to _advance_segment
    advCp,      \* the checkpoint (idx, segment_start) the next call starts from
    advNow,     \* the now of the last call
    advIn,      \* the checkpoint the last call started from
    advRet,     \* what the last call returned
    advKind,    \* "none": no call yet; "first": the last call started from the
                \* stored checkpoint; "later" / "same": it started from the
                \* checkpoint the call before returned, at a later / the same now
    advPre      \* the call before the last one started from a checkpoint that
                \* had a segment_start, not later than that call's now

VARIABLES
    lines,              \* document store, lines: line id -> stored itinerary
    stop_coords,        \* document store, stops: the stop ids that have coordinates
    driver_assignments, \* relational store: the driver_assignments rows
    has_end_ts,         \* relational store: driver_assignments has an END_TS column
    vehicles,           \* document store, vehicles: vehicle id -> document
    clock,              \* wall-clock time
    resp,               \* what the last live request returned
    writes              \* the update_vehicle_simulation calls of the last request

VARIABLES
    graph,      \* graph store: the NEXT and TRANSFER relationships
    stops,      \* graph store: the stop_id of the Stop nodes
    request,    \* the route request: origin and destination stop ids
    route,      \* what the route request returned
    user_profiles   \* document store, user_profiles: user id -> profile

VARIABLES
    concItin,   \* the itinerary of the line, fixed while the requests overlap
    concDoc,    \* document store: the document of the one vehicle of the line
    concDoc0,   \* that document before the first of the requests
    concClock,  \* wall-clock time
    concReq     \* per request: how far it got (pc), the document it read,
                \* its now and what it computed

VARIABLES
    routeReqs   \* per overlapping /api/route request: how far it got (pc), its
                \* stops, the path found, the profile it found, its response

VARIABLES
    line_rows,  \* relational store: LINES rows by line_id (code, name)
    line_docs,  \* document store: lines documents by _id
    stop_rows   \* relational store: STOPS rows by stop_id (lat, lon)

advVars == <<advItin, advCp, advNow, advIn, advRet, advKind, advPre>>
liveVars == <<lines, stop_coords, driver_assignments, has_end_ts, vehicles, clock,
             resp, writes>>
routeVars == <<graph, stops, request, route, user_profiles>>
concVars == <<concItin, concDoc, concDoc0, concClock, concReq>>
enrichVars == <<line_rows, line_docs, stop_rows>>
vars == <<advVars, liveVars, routeVars, concVars, routeReqs, enrichVars>>

NotCalled == [idx |-> 0, segment_start |-> NoTs, elapsed |-> 0, travel_s |-> 0,
              steps |-> 0, wraps |-> 0]

\* ------------------------------------------------------------------------
\* Chained calls of _advance_segment
\* ------------------------------------------------------------------------
AdvInit ==
    /\ advItin \in Itineraries
    /\ advCp \in [idx : (0 - 1)..MaxStops, segment_start : {NoTs, 0, 50}]
    /\ advNow = 0
    /\ advIn = advCp
    /\ advRet = NotCalled
    /\ advKind = "none"
    /\ advPre = FALSE

\* one call at instant t, starting from the current checkpoint; the
\* checkpoint it returns is the one the next call starts from
AdvanceCall(t) ==
    /\ t >= advNow
    /\ LET r == AdvanceSegment(advItin, advCp.idx, advCp.segment_start, t)
       IN  /\ advRet' = r
           /\ advCp' = [idx |-> r.idx, segment_start |-> r.segment_start]
    /\ advNow' = t
    /\ advIn' = advCp
    /\ advKind' = IF advKind = "none" THEN "first"
                  ELSE IF t = advNow THEN "same" ELSE "later"
    /\ advPre' = (/\ advKind # "none"
                  /\ advIn.segment_start # NoTs
                  /\ advIn.segment_start <= advNow)
    /\ UNCHANGED advItin

\* ------------------------------------------------------------------------
\* Stores read and written by the live-tracking requests
\* ------------------------------------------------------------------------
LineIds == {"L1", "L2"}
VehicleIds == {"V1", "V2"}
\* the line the live requests are made for (the other line only owns vehicles)
RequestLines == {"L1"}
LiveTimes == {150 * k : k \in 0..MaxLiveTicks}

\* sync_lines: the itinerary built from the scheduled seconds of a line's
\* stops (already sorted): avgStopSec is 0 for the first stop, otherwise the
\* difference to the stop before
SyncItinerary(secs) ==
    [i \in 1..Len(secs) |->
        [stop_id |-> i, seq |-> i,
         avgStopSec |-> IF i = 1 THEN 0 ELSE secs[i] - secs[i - 1]]]

\* stop_times of a line of n stops, 100 s apart
ScheduledSecs(n) == [i \in 1..n |-> 100 * (i - 1)]

\* sorted(itinerary, key=seq) of get_line_itinerary / _load_itinerary
InsertBySeq(sorted, e) ==
    LET k == Cardinality({i \in 1..Len(sorted) : sorted[i].seq <= e.seq})
    IN  SubSeq(sorted, 1, k) \o <<e>> \o SubSeq(sorted, k + 1, Len(sorted))

RECURSIVE SortBySeq(_)
SortBySeq(itinerary) ==
    IF itinerary = << >> THEN << >>
    ELSE InsertBySeq(SortBySeq(SubSeq(itinerary, 1, Len(itinerary) - 1)),
                     itinerary[Len(itinerary)])

\* get_line_itinerary: [] when the line has no document or no itinerary
GetLineItinerary(line_id) == SortBySeq(lines[line_id])

\* mutant: only an empty itinerary is rejected
TooShortOnlyEmpty(itinerary) == Len(itinerary) < 1

\* not itinerary or len(itinerary) < 2
TooShort(itinerary) == Len(itinerary) < 2

\* location.coordinates of a stop document, as (lon, lat)
StopCoord(stop_id) == <<100 * stop_id, 10 * stop_id>>

\* get_stops_metadata: coords_map, as the set of its keys
CoordsMap(stop_ids) == {sid \in stop_ids : sid \in stop_coords}

\* the rows get_active_assignments selects: start_ts <= now and
\* (end_ts IS NULL or end_ts > now), for the line
ActiveAssignments(line_id, now) ==
    {r \in driver_assignments :
        /\ r.line_id = line_id
        /\ r.start_ts <= now
        /\ (r.end_ts = NoTs \/ r.end_ts > now)}

\* keys of the assignment map
ActiveVehicleIds(line_id, now) ==
    {r.vehicle_id : r \in ActiveAssignments(line_id, now)}

\* get_vehicles_by_ids: the query is {"line": line_id}, narrowed to the given
\* ids only when the id list is not empty
GetVehiclesByIds(vehicle_ids, line_id) ==
    {v \in VehicleIds :
        /\ vehicles[v].line = line_id
        /\ (vehicle_ids # {} => v \in vehicle_ids)}

\* mutant: elapsed / travel_s without the clamp
ProgressUnclamped(elapsed, travel_s) == [num |-> elapsed, den |-> travel_s]

\* max(0.0, min(1.0, elapsed / travel_s)) as an exact fraction num / den
Progress(elapsed, travel_s) ==
    IF elapsed <= 0 THEN [num |-> 0, den |-> 1]
    ELSE IF elapsed >= travel_s THEN [num |-> 1, den |-> 1]
    ELSE [num |-> elapsed, den |-> travel_s]

\* _interpolate: a + (b - a) * t, rounded down to whole coordinate units
Interpolate(a, b, t) ==
    <<a[1] + ((b[1] - a[1]) * t.num) \div t.den,
      a[2] + ((b[2] - a[2]) * t.num) \div t.den>>

\* int(sim.get("idx") or 0)
StoredIdx(sim) ==
    IF "idx" \in DOMAIN sim THEN sim.idx ELSE 0

\* mutant: a missing segment_start_ts is read as the epoch
StoredStartEpoch(sim, now) ==
    IF "segment_start_ts" \in DOMAIN sim THEN sim.segment_start_ts ELSE 0

\* sim.get("segment_start_ts") or now
StoredStart(sim, now) ==
    IF "segment_start_ts" \in DOMAIN sim THEN sim.segment_start_ts ELSE now

\* body of the loop of calculate_positions for one vehicle document: the
\* checkpoint read (stored_idx), the new checkpoint, the progress, the location
\* (<< >> for None) and the ETA; raised when itinerary[new_idx] or
\* itinerary[new_idx + 1] is an IndexError
SimulateVehicle(doc, itinerary, coords_map, now) ==
    LET adv       == AdvanceSegment(itinerary, StoredIdx(doc.sim),
                                    StoredStart(doc.sim, now), now)
        raised    == ~(InRange(itinerary, adv.idx) /\ InRange(itinerary, adv.idx + 1))
        from_stop == IF raised THEN 0 ELSE PyAt(itinerary, adv.idx).stop_id
        to_stop   == IF raised THEN 0 ELSE PyAt(itinerary, adv.idx + 1).stop_id
        located   == /\ from_stop \in coords_map
                     /\ to_stop \in coords_map
                     /\ adv.travel_s > 0
        progress  == IF located THEN Progress(adv.elapsed, adv.travel_s)
                     ELSE [num |-> 0, den |-> 1]
    IN  [raised |-> raised, stored_idx |-> StoredIdx(doc.sim),
         had_start |-> "segment_start_ts" \in DOMAIN doc.sim,
         idx |-> adv.idx, segment_start_ts |-> adv.segment_start,
         elapsed |-> adv.elapsed, travel_s |-> adv.travel_s,
         from_stop |-> from_stop, to_stop |-> to_stop,
         progress |-> progress,
         loc |-> IF located
                 THEN Interpolate(StopCoord(from_stop), StopCoord(to_stop), progress)
                 ELSE << >>,
         eta_to_next_stop_s |-> Max(adv.travel_s - adv.elapsed, 0)]

\* mutant: sim.idx and sim.segment_start_ts go in two updates and only the
\* first is applied
UpdateVehicleSimulationIdxOnly(doc, sim_data, location, now_ts) ==
    [doc EXCEPT
        !.sim = IF "segment_start_ts" \in DOMAIN doc.sim
                THEN [idx |-> sim_data.idx,
                      segment_start_ts |-> doc.sim.segment_start_ts]
                ELSE [idx |-> sim_data.idx],
        !.lastKnown = IF location # << >>
                      THEN [ts |-> now_ts, loc |-> location]
                      ELSE @]

\* mutant: lastKnown is set on every write, also without a location
UpdateVehicleSimulationAlwaysLocation(doc, sim_data, location, now_ts) ==
    [doc EXCEPT
        !.sim = [idx |-> sim_data.idx,
                 segment_start_ts |-> sim_data.segment_start_ts],
        !.lastKnown = [ts |-> now_ts, loc |-> location]]

\* update_vehicle_simulation: $set of sim.idx and sim.segment_start_ts, and of
\* lastKnown only when a location was computed
UpdateVehicleSimulation(doc, sim_data, location, now_ts) ==
    [doc EXCEPT
        !.sim = [idx |-> sim_data.idx,
                 segment_start_ts |-> sim_data.segment_start_ts],
        !.lastKnown = IF location # << >>
                      THEN [ts |-> now_ts, loc |-> location]
                      ELSE @]

\* the arguments of one update_vehicle_simulation call
WriteOf(v, p) ==
    [vehicle_id |-> v, idx |-> p.idx, segment_start_ts |-> p.segment_start_ts,
     loc |-> p.loc]

NoResp == [kind |-> "none", handler |-> "", line_id |-> "", now |-> 0,
           queried |-> FALSE, note |-> "None", active |-> {},
           vehicles |-> << >>]

\* _simulate_vehicle_position of main.py: the same computation on a vehicle
\* document, behind its own guard on the itinerary length (an error payload,
\* nothing written)
SimulateVehiclePosition(doc, itinerary, coords_map, now) ==
    IF Len(itinerary) < 2
    THEN [raised |-> TRUE, stored_idx |-> StoredIdx(doc.sim),
          had_start |-> "segment_start_ts" \in DOMAIN doc.sim,
          idx |-> 0, segment_start_ts |-> now, elapsed |-> 0, travel_s |-> 0,
          from_stop |-> 0, to_stop |-> 0, progress |-> [num |-> 0, den |-> 1],
          loc |-> << >>, eta_to_next_stop_s |-> 0]
    ELSE
    LET adv       == AdvanceSegment(itinerary, StoredIdx(doc.sim),
                                    StoredStart(doc.sim, now), now)
        raised    == ~(InRange(itinerary, adv.idx) /\ InRange(itinerary, adv.idx + 1))
        from_stop == IF raised THEN 0 ELSE PyAt(itinerary, adv.idx).stop_id
        to_stop   == IF raised THEN 0 ELSE PyAt(itinerary, adv.idx + 1).stop_id
        located   == /\ from_stop \in coords_map
                     /\ to_stop \in coords_map
                     /\ adv.travel_s > 0
        progress  == IF located THEN Progress(adv.elapsed, adv.travel_s)
                     ELSE [num |-> 0, den |-> 1]
    IN  [raised |-> raised, stored_idx |-> StoredIdx(doc.sim),
         had_start |-> "segment_start_ts" \in DOMAIN doc.sim,
         idx |-> adv.idx, segment_start_ts |-> adv.segment_start,
         elapsed |-> adv.elapsed, travel_s |-> adv.travel_s,
         from_stop |-> from_stop, to_stop |-> to_stop,
         progress |-> progress,
         loc |-> IF located
                 THEN Interpolate(StopCoord(from_stop), StopCoord(to_stop), progress)
                 ELSE << >>,
         eta_to_next_stop_s |-> Max(adv.travel_s - adv.elapsed, 0)]

\* ------------------------------------------------------------------------
\* Live-tracking requests and their environment
\* ------------------------------------------------------------------------
\* simulation states found in vehicle documents: none, an index without a
\* timestamp, and checkpoints whose index is valid, negative (with a start in
\* the future) or beyond the end
StoredSims ==
    {<< >>,
     [idx |-> 1],
     [idx |-> 1, segment_start_ts |-> 0],
     [idx |-> 0 - 1, segment_start_ts |-> 300],
     [idx |-> MaxLiveStops, segment_start_ts |-> 0]}

AssignmentRows ==
    {[assignment_id |-> "A1", vehicle_id |-> "V1", driver_id |-> "D1",
      line_id |-> "L1", start_ts |-> 150, end_ts |-> 450],
     [assignment_id |-> "A2", vehicle_id |-> "V2", driver_id |-> "D2",
      line_id |-> "L1", start_ts |-> 0, end_ts |-> NoTs]}

LiveInit ==
    /\ \E n \in 0..MaxLiveStops :
          lines = [l \in LineIds |->
                      IF l = "L1" THEN SyncItinerary(ScheduledSecs(n))
                      ELSE << >>]
    /\ \E k \in {0, 3} : stop_coords = (1..MaxLiveStops) \ {k}
    /\ driver_assignments \in SUBSET AssignmentRows
    /\ has_end_ts \in BOOLEAN
    /\ ~has_end_ts => \A r \in driver_assignments : r.end_ts = NoTs
    /\ \E s \in StoredSims, l \in LineIds :
          vehicles = [v \in VehicleIds |->
                        IF v = "V1"
                        THEN [line |-> "L1", sim |-> s, lastKnown |-> << >>]
                        ELSE [line |-> l, sim |-> << >>, lastKnown |-> << >>]]
    /\ clock = 0
    /\ resp = NoResp
    /\ writes = {}

\* mutant: the loop over the vehicles of the line runs before the reads have
\* all returned, so a request that stops at a failing read has already written
AfterFailedReadLoopFirst(docs, line_id, now) ==
    [v \in VehicleIds |->
        IF docs[v].line = line_id
        THEN [docs[v] EXCEPT !.sim = [idx |-> 0, segment_start_ts |-> now]]
        ELSE docs[v]]

\* the vehicle documents after a request that stopped at a read that raised:
\* the itinerary, stops, assignments and vehicles are all read before the loop
\* that writes, so nothing has been written
AfterFailedRead(docs, line_id, now) == docs

\* calculate_positions(line_id) of live_service.py, the whole request; any of
\* its store reads may raise
CalculatePositions(line_id) ==
    LET itinerary == GetLineItinerary(line_id)
    IN  /\ \E store_fails \in BOOLEAN :
           IF store_fails
           THEN /\ resp' = [NoResp EXCEPT !.kind = "store_failed",
                                          !.handler = "calculate_positions",
                                          !.line_id = line_id, !.now = clock]
                /\ writes' = {}
                /\ vehicles' = AfterFailedRead(vehicles, line_id, clock)
           ELSE IF TooShort(itinerary)
           THEN /\ resp' = [NoResp EXCEPT !.kind = "error",
                                          !.handler = "calculate_positions",
                                          !.line_id = line_id, !.now = clock]
                /\ writes' = {}
                /\ UNCHANGED vehicles
           ELSE IF ~has_end_ts
           THEN /\ resp' = [NoResp EXCEPT !.kind = "lookup_failed",
                                          !.handler = "calculate_positions",
                                          !.line_id = line_id, !.now = clock]
                /\ writes' = {}
                /\ vehicles' = AfterFailedRead(vehicles, line_id, clock)
           ELSE LET stop_ids   == {itinerary[i].stop_id : i \in 1..Len(itinerary)}
                    coords_map == CoordsMap(stop_ids)
                    active     == ActiveVehicleIds(line_id, clock)
                    found      == GetVehiclesByIds(active, line_id)
                    now        == clock
                    sim        == [v \in found |->
                                     SimulateVehicle(vehicles[v], itinerary,
                                                     coords_map, now)]
                    failed     == {v \in found : sim[v].raised}
                IN  /\ vehicles' =
                          [v \in VehicleIds |->
                              IF v \in found \ failed
                              THEN UpdateVehicleSimulation(
                                       vehicles[v], sim[v], sim[v].loc, now)
                              ELSE vehicles[v]]
                    /\ writes' = {WriteOf(v, sim[v]) : v \in found \ failed}
                    /\ resp' = [kind |-> IF failed = {} THEN "ok" ELSE "exception",
                                handler |-> "calculate_positions",
                                line_id |-> line_id, now |-> now,
                                queried |-> TRUE,
                                note |-> IF active = {}
                                         THEN "No active driver assignments now"
                                         ELSE "None",
                                active |-> active,
                                vehicles |-> sim]
        /\ UNCHANGED <<lines, stop_coords, driver_assignments, has_end_ts, clock>>

\* live_line(line_id) of main.py (GET /api/live/{line_id}), the whole request;
\* any of its store reads may raise
LiveLine(line_id) ==
    LET itinerary == GetLineItinerary(line_id)
    IN  /\ \E store_fails \in BOOLEAN :
           IF store_fails
           THEN /\ resp' = [NoResp EXCEPT !.kind = "store_failed",
                                          !.handler = "live_line",
                                          !.line_id = line_id, !.now = clock]
                /\ writes' = {}
                /\ vehicles' = AfterFailedRead(vehicles, line_id, clock)
           ELSE IF TooShort(itinerary)
           THEN /\ resp' = [NoResp EXCEPT !.kind = "error",
                                          !.handler = "live_line",
                                          !.line_id = line_id, !.now = clock]
                /\ writes' = {}
                /\ UNCHANGED vehicles
           ELSE IF ~has_end_ts
           THEN /\ resp' = [NoResp EXCEPT !.kind = "lookup_failed",
                                          !.handler = "live_line",
                                          !.line_id = line_id, !.now = clock]
                /\ writes' = {}
                /\ vehicles' = AfterFailedRead(vehicles, line_id, clock)
           ELSE LET stop_ids   == {itinerary[i].stop_id : i \in 1..Len(itinerary)}
                    coords_map == CoordsMap(stop_ids)
                    active     == ActiveVehicleIds(line_id, clock)
                    found      == GetVehiclesByIds(active, line_id)
                    now        == clock
                    sim        == [v \in found |->
                                     SimulateVehiclePosition(vehicles[v], itinerary,
                                                             coords_map, now)]
                IN  IF active = {}
                    THEN /\ resp' = [kind |-> "ok", handler |-> "live_line",
                                     line_id |-> line_id, now |-> now,
                                     queried |-> TRUE,
                                     note |-> "No active driver assignments now",
                                     active |-> active,
                                     vehicles |-> << >>]
                         /\ writes' = {}
                         /\ UNCHANGED vehicles
                    ELSE /\ vehicles' =
                               [v \in VehicleIds |->
                                   IF v \in found /\ ~sim[v].raised
                                   THEN UpdateVehicleSimulation(
                                            vehicles[v], sim[v], sim[v].loc, now)
                                   ELSE vehicles[v]]
                         /\ writes' = {WriteOf(v, sim[v]) :
                                          v \in {u \in found : ~sim[u].raised}}
                         /\ resp' = [kind |-> "ok", handler |-> "live_line",
                                     line_id |-> line_id, now |-> now,
                                     queried |-> TRUE, note |-> "None",
                                     active |-> active,
                                     vehicles |-> sim]
        /\ UNCHANGED <<lines, stop_coords, driver_assignments, has_end_ts, clock>>

\* calculate_positions for a line whose stores answer and whose itinerary has
\* two stops or more: the vehicle ids of the payloads and the checkpoint writes
CalculatePositionsAnswer(line_id) ==
    LET itinerary  == GetLineItinerary(line_id)
        stop_ids   == {itinerary[i].stop_id : i \in 1..Len(itinerary)}
        coords_map == CoordsMap(stop_ids)
        active     == ActiveVehicleIds(line_id, clock)
        found      == GetVehiclesByIds(active, line_id)
        sim        == [v \in found |->
                         SimulateVehicle(vehicles[v], itinerary, coords_map, clock)]
    IN  [ids |-> found,
         writes |-> {WriteOf(v, sim[v]) : v \in {u \in found : ~sim[u].raised}}]

\* live_line, likewise: nothing is simulated when no assignment is active
LiveLineAnswer(line_id) ==
    LET itinerary  == GetLineItinerary(line_id)
        stop_ids   == {itinerary[i].stop_id : i \in 1..Len(itinerary)}
        coords_map == CoordsMap(stop_ids)
        active     == ActiveVehicleIds(line_id, clock)
        found      == GetVehiclesByIds(active, line_id)
        sim        == [v \in found |->
                         SimulateVehiclePosition(vehicles[v], itinerary,
                                                 coords_map, clock)]
    IN  IF active = {}
        THEN [ids |-> {}, writes |-> {}]
        ELSE [ids |-> found,
              writes |-> {WriteOf(v, sim[v]) : v \in {u \in found : ~sim[u].raised}}]

\* time passes between requests
Tick(t) ==
    /\ t > clock
    /\ clock' = t
    /\ resp' = NoResp
    /\ writes' = {}
    /\ UNCHANGED <<lines, stop_coords, driver_assignments, has_end_ts, vehicles>>

\* the sync job rebuilds the itinerary of a line wholesale
SyncLines(line_id, n) ==
    /\ lines[line_id] # SyncItinerary(ScheduledSecs(n))
    /\ lines' = [lines EXCEPT ![line_id] = SyncItinerary(ScheduledSecs(n))]
    /\ resp' = NoResp
    /\ writes' = {}
    /\ UNCHANGED <<stop_coords, driver_assignments, has_end_ts, vehicles, clock>>

\* ------------------------------------------------------------------------
\* Topology graph and the shortest-path query
\* ------------------------------------------------------------------------
\* allShortestPaths((origin)-[:NEXT|TRANSFER*..50]-(dest))
MaxHops == 50

\* the relationships the graph sync writes: NEXT with line_id and avg_travel_s,
\* TRANSFER with walk_s; and a NEXT relationship that lacks its line_id
RelKinds ==
    {[type |-> "NEXT", props |-> [line_id |-> "L1", avg_travel_s |-> 300]],
     [type |-> "NEXT", props |-> [line_id |-> "L2", avg_travel_s |-> 60]],
     [type |-> "NEXT", props |-> [avg_travel_s |-> 120]],
     [type |-> "TRANSFER", props |-> [walk_s |-> 180]]}

SmallStops == 1..4

\* a TRANSFER relationship that also carries a line_id, as the graph store
\* accepts it
LabelledTransfer ==
    [src |-> 1, dst |-> 2, type |-> "TRANSFER",
     props |-> [line_id |-> "L2", walk_s |-> 180]]

Relationships ==
    {[src |-> e[1], dst |-> e[2], type |-> k.type, props |-> k.props] :
        e \in {x \in SmallStops \X SmallStops : x[1] < x[2]}, k \in RelKinds}
    \cup {LabelledTransfer}

\* the graphs of at most n of these relationships
RECURSIVE GraphsUpTo(_)
GraphsUpTo(n) ==
    IF n = 0 THEN {{}}
    ELSE LET smaller == GraphsUpTo(n - 1)
         IN  smaller \cup {g \cup {r} : g \in smaller, r \in Relationships}

\* a line of n + 1 stops joined by n NEXT relationships of line L1
ChainGraph(n) ==
    {[src |-> i, dst |-> i + 1, type |-> "NEXT",
      props |-> [line_id |-> "L1", avg_travel_s |-> 300]] : i \in 1..n}

\* a relationship traversed from stop a: the pattern is undirected
StepsFrom(g, a) ==
    {[rel |-> r, from |-> a, to |-> r.dst] : r \in {x \in g : x.src = a}} \cup
    {[rel |-> r, from |-> a, to |-> r.src] : r \in {x \in g : x.dst = a}}

Neighbours(g, A) == UNION {{st.to : st \in StepsFrom(g, a)} : a \in A}

\* breadth-first layers from the origin: layers[k + 1] holds the stops at
\* distance k; the search stops at the layer holding dest or at an empty layer
RECURSIVE BfsLayers(_, _, _, _)
BfsLayers(g, layers, seen, dest) ==
    LET last == layers[Len(layers)]
        next == Neighbours(g, last) \ seen
    IN  IF dest \in last \/ next = {}
        THEN layers
        ELSE BfsLayers(g, Append(layers, next), seen \cup next, dest)

\* the shortest paths that end at stop v of layer k + 1, as sequences of steps
RECURSIVE PathsTo(_, _, _, _)
PathsTo(g, layers, k, v) ==
    IF k = 0 THEN {<< >>}
    ELSE UNION {{Append(p, [rel |-> st.rel, from |-> st.to, to |-> v]) :
                    p \in PathsTo(g, layers, k - 1, st.to)} :
                st \in {x \in StepsFrom(g, v) : x.to \in layers[k]}}

\* mutant: the *..50 bound of the pattern is dropped
AllShortestPathsUnbounded(g, origin, dest) ==
    LET layers == BfsLayers(g, <<{origin}>>, {origin}, dest)
        k      == Len(layers) - 1
    IN  IF dest \in layers[Len(layers)] /\ k >= 1
        THEN PathsTo(g, layers, k, dest)
        ELSE {}

\* allShortestPaths between two different stops, at most MaxHops long
AllShortestPaths(g, origin, dest) ==
    LET layers == BfsLayers(g, <<{origin}>>, {origin}, dest)
        k      == Len(layers) - 1
    IN  IF dest \in layers[Len(layers)] /\ k >= 1 /\ k <= MaxHops
        THEN PathsTo(g, layers, k, dest)
        ELSE {}

\* CASE WHEN type(r)='TRANSFER' THEN 'TRANSFER' ELSE coalesce(r.line_id,'UNKNOWN')
Lid(r) ==
    IF r.type = "TRANSFER" THEN "TRANSFER"
    ELSE IF "line_id" \in DOMAIN r.props THEN r.props.line_id
    ELSE "UNKNOWN"

\* mutant: reduce over range(1, size(lids)-2): the last pair is not compared
RECURSIVE SwitchesShortRange(_)
SwitchesShortRange(p) ==
    IF Len(p) < 3 THEN 0
    ELSE SwitchesShortRange(SubSeq(p, 1, Len(p) - 1))
         + (IF Lid(p[Len(p) - 1].rel) # Lid(p[Len(p) - 2].rel) THEN 1 ELSE 0)

\* reduce(sw=0, i IN range(1, size(lids)-1) | sw + CASE WHEN lids[i]<>lids[i-1] ...)
RECURSIVE Switches(_)
Switches(p) ==
    IF Len(p) < 2 THEN 0
    ELSE Switches(SubSeq(p, 1, Len(p) - 1))
         + (IF Lid(p[Len(p)].rel) # Lid(p[Len(p) - 1].rel) THEN 1 ELSE 0)

\* ORDER BY switches ASC ... LIMIT 1: the paths the query may return
QueryPaths(g, origin, dest) ==
    LET all == AllShortestPaths(g, origin, dest)
    IN  {p \in all : \A q \in all : Switches(p) <= Switches(q)}

\* ------------------------------------------------------------------------
\* Route requests
\* ------------------------------------------------------------------------
\* mutant: the property is read under a name no relationship has
PropOr0WrongKey(r, key) == 0

\* rel.get(key) or 0
PropOr0(r, key) == IF key \in DOMAIN r.props THEN r.props[key] ELSE 0

\* rel.get("line_id"), "None" when the relationship has no line_id
LineIdOf(r) == IF "line_id" \in DOMAIN r.props THEN r.props.line_id ELSE "None"

\* the orders in which a list made from a set can come out
ListsOf(S) ==
    {f \in [1..Cardinality(S) -> S] :
        \A i, j \in 1..Cardinality(S) : i # j => f[i] # f[j]}

\* mutant: the total accumulates the ride time only
RECURSIVE SumCostRideOnly(_)
SumCostRideOnly(segments) ==
    IF segments = << >> THEN 0
    ELSE SumCostRideOnly(SubSeq(segments, 1, Len(segments) - 1))
         + segments[Len(segments)].avg_travel_s

\* total_travel_s += cost, over the segments
RECURSIVE SumCost(_)
SumCost(segments) ==
    IF segments = << >> THEN 0
    ELSE SumCost(SubSeq(segments, 1, Len(segments) - 1))
         + segments[Len(segments)].cost_s

\* mutant: the stops of a segment are the start and end node of the
\* relationship as stored, not the nodes of the path
ServiceSegmentsStoredDirection(path) ==
    [i \in 1..Len(path) |->
        LET rel == path[i].rel
        IN  [rel_type |-> rel.type,
             line_id |-> IF rel.type = "TRANSFER" THEN "WALK" ELSE LineIdOf(rel),
             from_stop |-> rel.src,
             to_stop |-> rel.dst,
             avg_travel_s |-> PropOr0(rel, "avg_travel_s"),
             walk_s |-> PropOr0(rel, "walk_s"),
             cost_s |-> PropOr0(rel, "avg_travel_s") + PropOr0(rel, "walk_s")]]

\* find_best_route, step 2: one segment per relationship of the path
ServiceSegments(path) ==
    [i \in 1..Len(path) |->
        LET rel == path[i].rel
        IN  [rel_type |-> rel.type,
             line_id |-> IF rel.type = "TRANSFER" THEN "WALK" ELSE LineIdOf(rel),
             from_stop |-> path[i].from,
             to_stop |-> path[i].to,
             avg_travel_s |-> PropOr0(rel, "avg_travel_s"),
             walk_s |-> PropOr0(rel, "walk_s"),
             cost_s |-> PropOr0(rel, "avg_travel_s") + PropOr0(rel, "walk_s")]]

\* find_best_route: lines_used, a set
ServiceLinesUsed(path) ==
    {LineIdOf(path[i].rel) : i \in {j \in 1..Len(path) : LineIdOf(path[j].rel) # "None"}}

\* get_route of main.py: one segment per relationship of the path
ApiSegments(path) ==
    [i \in 1..Len(path) |->
        LET rel == path[i].rel
        IN  [rel_type |-> rel.type,
             line_id |-> IF PropOr0(rel, "walk_s") # 0 /\ rel.type = "TRANSFER"
                         THEN "WALK TO TRANSFER" ELSE LineIdOf(rel),
             from_stop |-> path[i].from,
             to_stop |-> path[i].to,
             avg_travel_s |-> PropOr0(rel, "avg_travel_s"),
             walk_s |-> PropOr0(rel, "walk_s"),
             cost_s |-> PropOr0(rel, "avg_travel_s") + PropOr0(rel, "walk_s")]]

\* get_route of main.py: lines_used, the distinct line ids in path order
RECURSIVE ApiLinesUsed(_)
ApiLinesUsed(path) ==
    IF path = << >> THEN << >>
    ELSE LET before  == ApiLinesUsed(SubSeq(path, 1, Len(path) - 1))
             line_id == LineIdOf(path[Len(path)].rel)
         IN  IF line_id # "None" /\ \A i \in 1..Len(before) : before[i] # line_id
             THEN Append(before, line_id)
             ELSE before

NoRoute == [kind |-> "none", handler |-> "", origin_stop_id |-> 0,
            dest_stop_id |-> 0, total_hops |-> 0, total_travel_s |-> 0,
            lines_used |-> << >>, segments |-> << >>, path |-> << >>]

\* a SQL NULL / Python None in a row or document
Null == "None"
NoCoord == 0 - 1

\* mutant: a missing coordinate is taken as 0
CalculateDistanceNoGuard(lat1, lon1, lat2, lon2) ==
    LET z(x) == IF x = NoCoord THEN 0 ELSE x
    IN  Max(z(lat2) - z(lat1), z(lat1) - z(lat2))
        + Max(z(lon2) - z(lon1), z(lon1) - z(lon2))

\* calculate_distance / calculate_distance_km: 0.0 when a coordinate is None;
\* otherwise the great-circle distance, stood for here by the sum of the
\* coordinate differences (0 only between equal points)
CalculateDistance(lat1, lon1, lat2, lon2) ==
    IF NoCoord \in {lat1, lon1, lat2, lon2} THEN 0
    ELSE Max(lat2 - lat1, lat1 - lat2) + Max(lon2 - lon1, lon1 - lon2)

\* o_stops.get(stop_id, {}).get(key) / seg[...].get(key)
StopField(stop_id, key) ==
    IF stop_id \in DOMAIN stop_rows THEN stop_rows[stop_id][key] ELSE NoCoord

\* step 4: the segments with dist_km
WithDistances(segments) ==
    [i \in 1..Len(segments) |->
        LET seg == segments[i]
        IN  [rel_type |-> seg.rel_type, line_id |-> seg.line_id,
             from_stop |-> seg.from_stop, to_stop |-> seg.to_stop,
             avg_travel_s |-> seg.avg_travel_s, walk_s |-> seg.walk_s,
             cost_s |-> seg.cost_s,
             dist_km |-> CalculateDistance(StopField(seg.from_stop, "lat"),
                                           StopField(seg.from_stop, "lon"),
                                           StopField(seg.to_stop, "lat"),
                                           StopField(seg.to_stop, "lon"))]]

RECURSIVE SumDist(_)
SumDist(segments) ==
    IF segments = << >> THEN 0
    ELSE SumDist(SubSeq(segments, 1, Len(segments) - 1))
         + segments[Len(segments)].dist_km

\* d.get(key) of the row or document of a line, Null when there is none
LineField(store, lid, key) ==
    IF lid \in DOMAIN store /\ key \in DOMAIN store[lid]
    THEN store[lid][key]
    ELSE Null

\* a or b
PyOr(a, b) == IF a # Null THEN a ELSE b

\* mutant: the document value is preferred to the relational one
LinesEnrichedDocFirst(lines_used) ==
    [i \in 1..Len(lines_used) |->
        LET lid == lines_used[i]
        IN  [line_id |-> lid,
             code |-> PyOr(LineField(line_docs, lid, "code"),
                           LineField(line_rows, lid, "code")),
             name |-> PyOr(LineField(line_docs, lid, "name"),
                           LineField(line_rows, lid, "name"))]]

\* step 5: one entry per line of lines_used
LinesEnriched(lines_used) ==
    [i \in 1..Len(lines_used) |->
        LET lid == lines_used[i]
        IN  [line_id |-> lid,
             code |-> PyOr(LineField(line_rows, lid, "code"),
                           LineField(line_docs, lid, "code")),
             name |-> PyOr(LineField(line_rows, lid, "name"),
                           LineField(line_docs, lid, "name"))]]

RouteResult(handler, origin, dest, path, segments, lines_used) ==
    [kind |-> "ok", handler |-> handler, origin_stop_id |-> origin,
     dest_stop_id |-> dest, total_hops |-> Len(path),
     total_travel_s |-> SumCost(segments),
     total_dist_km |-> SumDist(WithDistances(segments)),
     lines_used |-> lines_used, segments |-> WithDistances(segments),
     lines_enriched |-> LinesEnriched(lines_used), path |-> path]

\* the rows and documents the sync jobs write: every line and every stop has
\* a complete row, every line a document
CompleteRecords ==
    /\ line_rows = [l \in {"L1", "L2"} |-> [code |-> "code", name |-> "name"]]
    /\ line_docs = [l \in {"L1", "L2"} |->
                       [code |-> "doc code", name |-> "doc name"]]
    /\ stop_rows = [st \in SmallStops |-> [lat |-> 10 * st, lon |-> 100 * st]]

\* rows and documents with gaps: line L1 without a row or with a row whose
\* code is NULL, without a document or with one that has no name; one stop
\* without a row or with a row whose lat is NULL
LineRowChoices ==
    {<< >>,
     [l \in {"L1"} |-> [code |-> "code", name |-> "name"]],
     [l \in {"L1"} |-> [code |-> Null, name |-> "name"]]}

LineDocChoices ==
    {<< >>,
     [l \in {"L1"} |-> [code |-> "doc code", name |-> "doc name"]],
     [l \in {"L1"} |-> [code |-> "doc code"]]}

StopRowChoices ==
    {[st \in SmallStops \ {k} |-> [lat |-> 10 * st, lon |-> 100 * st]] :
        k \in 0..2}
    \cup {[st \in SmallStops |->
              [lat |-> IF st = 2 THEN NoCoord ELSE 10 * st, lon |-> 100 * st]]}

\* the authenticated user of the /api/route request
CurrentUser == "U1"

\* the profile ensure_mongo_profile inserts
DefaultProfile ==
    [favorites |-> [lines |-> << >>, stops |-> << >>],
     prefs |-> [notifyDisruptions |-> TRUE, units |-> "metric"],
     recentTrips |-> << >>]

\* profiles found in the collection: none, or one the user has edited
StoredProfiles ==
    {<< >>,
     [u \in {CurrentUser} |->
         [DefaultProfile EXCEPT !.prefs.units = "imperial"]]}

\* ensure_mongo_profile: the collection after the call (a default profile is
\* inserted when the user has none)
EnsureMongoProfile(profiles, user_id) ==
    IF user_id \in DOMAIN profiles
    THEN profiles
    ELSE [u \in DOMAIN profiles \cup {user_id} |->
             IF u = user_id THEN DefaultProfile ELSE profiles[u]]

\* the stops requests are made for: the first two and the last one
RequestStops(all) ==
    {s \in all : s <= 2 \/ s = Cardinality(all)}

\* the stop pairs of the requests made against stores with gaps, and of
\* the overlapping requests
StopPairs ==
    {[origin |-> 1, dest |-> 2], [origin |-> 2, dest |-> 1],
     [origin |-> 1, dest |-> 3]}

EnrichInit ==
    /\ graph \in GraphsUpTo(MaxConcEdges)
    /\ stops = SmallStops
    /\ request \in StopPairs
    /\ route = NoRoute
    /\ user_profiles = << >>
    /\ line_rows \in LineRowChoices
    /\ line_docs \in LineDocChoices
    /\ stop_rows \in StopRowChoices

RouteInit ==
    /\ CompleteRecords
    /\ \/ /\ graph \in GraphsUpTo(MaxEdges)
          /\ stops = SmallStops
       \/ \E n \in {MaxHops - 1, MaxHops, MaxHops + 1} :
             /\ graph = ChainGraph(n)
             /\ stops = 1..(n + 1)
    /\ request \in {r \in [origin : RequestStops(stops), dest : RequestStops(stops)] :
                      r.origin # r.dest}
    /\ route = NoRoute
    /\ user_profiles \in StoredProfiles

\* find_best_route(origin_id, dest_id) of routing_service.py
FindBestRoute ==
    /\ route.kind = "none"
    /\ LET origin == request.origin
           dest   == request.dest
           paths  == QueryPaths(graph, origin, dest)
       IN  IF paths = {}
           THEN route' = [NoRoute EXCEPT !.kind = "notfound",
                                         !.handler = "find_best_route",
                                         !.origin_stop_id = origin,
                                         !.dest_stop_id = dest]
           ELSE \E path \in paths :
                \E lines_used \in ListsOf(ServiceLinesUsed(path)) :
                   route' = RouteResult("find_best_route", origin, dest, path,
                                        ServiceSegments(path), lines_used)
    /\ UNCHANGED <<graph, stops, request, user_profiles>>

\* get_route(origin_stop_id, dest_stop_id) of main.py (GET /api/route)
GetRoute ==
    /\ route.kind = "none"
    /\ LET origin == request.origin
           dest   == request.dest
           paths  == QueryPaths(graph, origin, dest)
       IN  IF paths = {}
           THEN /\ route' = [NoRoute EXCEPT !.kind = "notfound",
                                            !.handler = "get_route",
                                            !.origin_stop_id = origin,
                                            !.dest_stop_id = dest]
                /\ UNCHANGED user_profiles
           ELSE /\ \E path \in paths :
                      route' = RouteResult("get_route", origin, dest, path,
                                           ApiSegments(path), ApiLinesUsed(path))
                /\ user_profiles' = EnsureMongoProfile(user_profiles, CurrentUser)
    /\ UNCHANGED <<graph, stops, request>>

\* ------------------------------------------------------------------------
\* Overlapping live-tracking requests for one vehicle
\* ------------------------------------------------------------------------
\* Two requests for the line of the vehicle run the steps of the loop body of
\* calculate_positions / of _simulate_vehicle_position one at a time: the
\* vehicles are read (the find), now is taken and the position computed, the
\* checkpoint is written back (one update_one).
Requests == {"R1", "R2"}
ConcTimes == {150 * k : k \in 0..MaxConcTicks}

\* itineraries of 2 and 3 stops
ConcItineraries == ItinerariesOfLen(2) \cup ItinerariesOfLen(3)

\* a request that has not read yet
NotStarted == [pc |-> "start", doc |-> << >>, now |-> 0, sim |-> << >>]

\* every stop of the itinerary has coordinates
ConcCoords == {concItin[i].stop_id : i \in 1..Len(concItin)}

ConcInit ==
    /\ concItin \in ConcItineraries
    /\ \E s \in StoredSims :
          concDoc = [line |-> "L1", sim |-> s, lastKnown |-> << >>]
    /\ concDoc0 = concDoc
    /\ concClock = 0
    /\ concReq = [r \in Requests |-> NotStarted]

\* vehicles = get_vehicles_by_ids(...) / vehicles_col.find(...)
ReadVehicle(r) ==
    /\ concReq[r].pc = "start"
    /\ concReq' = [concReq EXCEPT ![r].pc = "read", ![r].doc = concDoc]
    /\ UNCHANGED <<concItin, concDoc, concDoc0, concClock>>

\* now = datetime.now(timezone.utc), then the loop body up to the write
Simulate(r) ==
    /\ concReq[r].pc = "read"
    /\ concReq' = [concReq EXCEPT
                      ![r].pc = "simulated",
                      ![r].now = concClock,
                      ![r].sim = SimulateVehicle(concReq[r].doc, concItin,
                                                 ConcCoords, concClock)]
    /\ UNCHANGED <<concItin, concDoc, concDoc0, concClock>>

\* update_vehicle_simulation / vehicles_col.update_one
WriteBack(r) ==
    /\ concReq[r].pc = "simulated"
    /\ concDoc' = UpdateVehicleSimulation(concDoc, concReq[r].sim,
                                          concReq[r].sim.loc, concReq[r].now)
    /\ concReq' = [concReq EXCEPT ![r].pc = "written"]
    /\ UNCHANGED <<concItin, concDoc0, concClock>>

ConcTick(t) ==
    /\ t > concClock
    /\ concClock' = t
    /\ UNCHANGED <<concItin, concDoc, concDoc0, concReq>>

\* no overlapping requests while the other parts are exercised
ConcIdle ==
    /\ concItin = << >>
    /\ concDoc = [line |-> "L1", sim |-> << >>, lastKnown |-> << >>]
    /\ concDoc0 = concDoc
    /\ concClock = 0
    /\ concReq = [r \in Requests |-> NotStarted]

\* ------------------------------------------------------------------------
\* Overlapping /api/route requests of one user
\* ------------------------------------------------------------------------
\* Two get_route requests of the same user run their store operations one at
\* a time: the path query, ensure_mongo_profile's find_one, its insert_one
\* (when find_one found nothing), and the rest of the handler, which only reads.
\* a request that has not run its query yet
Waiting(pair) ==
    [pc |-> "start", origin |-> pair.origin, dest |-> pair.dest,
     path |-> << >>, has_profile |-> FALSE, response |-> NoRoute]

RouteConcInit ==
    /\ CompleteRecords
    /\ graph \in GraphsUpTo(MaxConcEdges)
    /\ stops = SmallStops
    /\ request = [origin |-> 1, dest |-> 2]
    /\ route = NoRoute
    /\ user_profiles \in StoredProfiles
    /\ routeReqs \in [Requests -> {Waiting(p) : p \in StopPairs}]

\* session.run(...).single(): 404 when there is no record
RunQuery(r) ==
    /\ routeReqs[r].pc = "start"
    /\ LET paths == QueryPaths(graph, routeReqs[r].origin, routeReqs[r].dest)
       IN  IF paths = {}
           THEN routeReqs' = [routeReqs EXCEPT
                    ![r].pc = "done",
                    ![r].response = [NoRoute EXCEPT
                                        !.kind = "notfound",
                                        !.handler = "get_route",
                                        !.origin_stop_id = routeReqs[r].origin,
                                        !.dest_stop_id = routeReqs[r].dest]]
           ELSE \E path \in paths :
                   routeReqs' = [routeReqs EXCEPT ![r].pc = "queried",
                                                 ![r].path = path]
    /\ UNCHANGED <<graph, stops, request, route, user_profiles>>

\* ensure_mongo_profile: profile = profiles.find_one({"_id": user_id})
FindProfile(r) ==
    /\ routeReqs[r].pc = "queried"
    /\ routeReqs' = [routeReqs EXCEPT
                        ![r].pc = "looked",
                        ![r].has_profile = (CurrentUser \in DOMAIN user_profiles)]
    /\ UNCHANGED <<graph, stops, request, route, user_profiles>>

\* ensure_mongo_profile: if not profile: profiles.insert_one(profile); the
\* insert of an _id the collection already holds raises DuplicateKeyError,
\* which nothing in get_route catches
InsertProfile(r) ==
    /\ routeReqs[r].pc = "looked"
    /\ IF routeReqs[r].has_profile
       THEN /\ routeReqs' = [routeReqs EXCEPT ![r].pc = "ensured"]
            /\ UNCHANGED user_profiles
       ELSE IF CurrentUser \in DOMAIN user_profiles
       THEN /\ routeReqs' = [routeReqs EXCEPT
                                ![r].pc = "done",
                                ![r].response =
                                    [NoRoute EXCEPT
                                        !.kind = "error",
                                        !.handler = "get_route",
                                        !.origin_stop_id = routeReqs[r].origin,
                                        !.dest_stop_id = routeReqs[r].dest]]
            /\ UNCHANGED user_profiles
       ELSE /\ routeReqs' = [routeReqs EXCEPT ![r].pc = "ensured"]
            /\ user_profiles' = EnsureMongoProfile(user_profiles, CurrentUser)
    /\ UNCHANGED <<graph, stops, request, route>>

\* the rest of get_route: distances, enrichment, the response
Respond(r) ==
    /\ routeReqs[r].pc = "ensured"
    /\ routeReqs' = [routeReqs EXCEPT
                        ![r].pc = "done",
                        ![r].response =
                            RouteResult("get_route", routeReqs[r].origin,
                                        routeReqs[r].dest, routeReqs[r].path,
                                        ApiSegments(routeReqs[r].path),
                                        ApiLinesUsed(routeReqs[r].path))]
    /\ UNCHANGED <<graph, stops, request, route, user_profiles>>

\* no overlapping route requests while the other parts are exercised
RouteConcIdle ==
    routeReqs = [r \in Requests |-> Waiting([origin |-> 1, dest |-> 2])]

\* ------------------------------------------------------------------------
\* Specifications
\* ------------------------------------------------------------------------
\* the stores while only _advance_segment is exercised
LiveIdle ==
    /\ lines = [l \in LineIds |-> << >>]
    /\ stop_coords = {}
    /\ driver_assignments = {}
    /\ has_end_ts = TRUE
    /\ vehicles = [v \in VehicleIds |->
                     [line |-> "L1", sim |-> << >>, lastKnown |-> << >>]]
    /\ clock = 0
    /\ resp = NoResp
    /\ writes = {}

\* no _advance_segment call chain while the requests are exercised
AdvIdle ==
    /\ advItin = << >>
    /\ advCp = [idx |-> 0, segment_start |-> NoTs]
    /\ advNow = 0
    /\ advIn = advCp
    /\ advRet = NotCalled
    /\ advKind = "none"
    /\ advPre = FALSE

\* an empty graph while no route request is exercised
RouteIdle ==
    /\ CompleteRecords
    /\ graph = {}
    /\ stops = {}
    /\ request = [origin |-> 0, dest |-> 0]
    /\ route = NoRoute
    /\ user_profiles = << >>

AdvNext ==
    \E t \in Times : AdvanceCall(t) /\ UNCHANGED <<liveVars, routeVars, concVars, routeReqs, enrichVars>>

LiveNext ==
    \/ \E l \in RequestLines :
          CalculatePositions(l) /\ UNCHANGED <<advVars, routeVars, concVars, routeReqs, enrichVars>>
    \/ \E l \in RequestLines :
          LiveLine(l) /\ UNCHANGED <<advVars, routeVars, concVars, routeReqs, enrichVars>>
    \/ \E t \in LiveTimes :
          Tick(t) /\ UNCHANGED <<advVars, routeVars, concVars, routeReqs, enrichVars>>
    \/ \E n \in 0..MaxLiveStops :
          SyncLines("L1", n) /\ UNCHANGED <<advVars, routeVars, concVars, routeReqs, enrichVars>>

RouteNext ==
    \/ FindBestRoute /\ UNCHANGED <<advVars, liveVars, concVars, routeReqs, enrichVars>>
    \/ GetRoute /\ UNCHANGED <<advVars, liveVars, concVars, routeReqs, enrichVars>>

ConcNext ==
    \/ \E r \in Requests :
          ReadVehicle(r) /\ UNCHANGED <<advVars, liveVars, routeVars, routeReqs, enrichVars>>
    \/ \E r \in Requests :
          Simulate(r) /\ UNCHANGED <<advVars, liveVars, routeVars, routeReqs, enrichVars>>
    \/ \E r \in Requests :
          WriteBack(r) /\ UNCHANGED <<advVars, liveVars, routeVars, routeReqs, enrichVars>>
    \/ \E t \in ConcTimes :
          ConcTick(t) /\ UNCHANGED <<advVars, liveVars, routeVars, routeReqs, enrichVars>>

RouteConcNext ==
    \/ \E r \in Requests :
          RunQuery(r) /\ UNCHANGED <<advVars, liveVars, concVars, enrichVars>>
    \/ \E r \in Requests :
          FindProfile(r) /\ UNCHANGED <<advVars, liveVars, concVars, enrichVars>>
    \/ \E r \in Requests :
          InsertProfile(r) /\ UNCHANGED <<advVars, liveVars, concVars, enrichVars>>
    \/ \E r \in Requests :
          Respond(r) /\ UNCHANGED <<advVars, liveVars, concVars, enrichVars>>

InitAdvance == AdvInit /\ LiveIdle /\ RouteIdle /\ ConcIdle /\ RouteConcIdle

InitLive == LiveInit /\ AdvIdle /\ RouteIdle /\ ConcIdle /\ RouteConcIdle

InitRoute == RouteInit /\ AdvIdle /\ LiveIdle /\ ConcIdle /\ RouteConcIdle

InitConc == ConcInit /\ AdvIdle /\ LiveIdle /\ RouteIdle /\ RouteConcIdle

InitRouteConc == RouteConcInit /\ AdvIdle /\ LiveIdle /\ ConcIdle

InitEnrich == EnrichInit /\ AdvIdle /\ LiveIdle /\ ConcIdle /\ RouteConcIdle

SpecEnrich == InitEnrich /\ [][RouteNext]_vars

SpecRouteConc == InitRouteConc /\ [][RouteConcNext]_vars

SpecConc == InitConc /\ [][ConcNext]_vars

SpecAdvance == InitAdvance /\ [][AdvNext]_vars

SpecLive == InitLive /\ [][LiveNext]_vars

SpecRoute == InitRoute /\ [][RouteNext]_vars

\* ------------------------------------------------------------------------
\* Properties of _advance_segment
\* ------------------------------------------------------------------------
\* the last call started from checkpoint (idx = 0, segment_start = T) on an
\* itinerary of three stops whose two segments take 300 s each, at now = T + 650
CatchUpScenario ==
    /\ advKind # "none"
    /\ Len(advItin) = 3
    /\ TravelS(advItin, 0) = 300
    /\ TravelS(advItin, 1) = 300
    /\ advIn.idx = 0
    /\ advIn.segment_start # NoTs
    /\ advNow = advIn.segment_start + 650

\* C1 as stated: in the catch-up scenario (two segments of 300 s, checkpoint
\* (0, T), now = T + 650) the call returns idx = 1 with elapsed = 50.
C1_CatchUpAsStated ==
    CatchUpScenario => (advRet.idx = 1 /\ advRet.elapsed = 50)

\* C1 amended: in the catch-up scenario both segments are consumed (600 s),
\* the index wraps, and the call returns idx = 0 with elapsed = 50 and
\* segment_start = T + 600.
C1_CatchUpWraps ==
    CatchUpScenario =>
        /\ advRet.idx = 0
        /\ advRet.elapsed = 50
        /\ advRet.segment_start = advIn.segment_start + 600
        /\ advRet.travel_s = 300

C1_Witness ==
    /\ CatchUpScenario
    /\ advRet.idx = 0
    /\ advRet.elapsed = 50
    /\ advRet.wraps = 1

\* C5: over chained calls at non-decreasing now values, each starting from
\* the checkpoint the previous call returned, the returned segment_start never
\* decreases, and the returned idx is smaller than the previous one only if
\* the call left the last segment for segment 0 (a wrap).
C5_Monotone ==
    [][(advKind # "none") =>
          /\ advRet'.segment_start >= advRet.segment_start
          /\ (advRet'.idx < advRet.idx => advRet'.wraps >= 1)]_vars

\* a chained call at a later now that caught up over several segments and
\* returned a smaller idx than it started from, not starting on the last segment
C5_Witness ==
    /\ advKind = "later"
    /\ advRet.idx < advIn.idx
    /\ advIn.idx < Len(advItin) - 2
    /\ advRet.steps >= 2
    /\ advRet.wraps = 1

\* C8: a call that starts from the checkpoint the previous call returned, at
\* the same now, returns the same idx, segment_start, elapsed and travel_s.
C8_Idempotent ==
    [][(advKind # "none" /\ advNow' = advNow) =>
          /\ advRet'.idx = advRet.idx
          /\ advRet'.segment_start = advRet.segment_start
          /\ advRet'.elapsed = advRet.elapsed
          /\ advRet'.travel_s = advRet.travel_s]_vars

\* a repeated call at the same now, after a call that had to catch up
C8_Witness ==
    /\ advKind = "same"
    /\ Len(advItin) >= 2
    /\ advRet.steps = 0
    /\ advIn.idx = advRet.idx
    /\ advIn.segment_start = advRet.segment_start
    /\ advRet.segment_start > 0

\* ------------------------------------------------------------------------
\* Properties of the live-tracking requests
\* ------------------------------------------------------------------------
\* the last request was answered by the given handler for a line whose
\* itinerary has at least 2 stops while no assignment of the line was active
EmptyAssignmentCase(handler) ==
    /\ resp.kind # "none"
    /\ resp.handler = handler
    /\ Len(GetLineItinerary(resp.line_id)) >= 2
    /\ ActiveVehicleIds(resp.line_id, resp.now) = {}

\* C2: when the line has an itinerary of at least 2 stops and no active
\* assignment, calculate_positions returns an empty vehicles list with a
\* non-null note and calls update_vehicle_simulation for no vehicle.
C2_EmptyAssignmentNoWrites ==
    EmptyAssignmentCase("calculate_positions") =>
        /\ resp.kind = "ok"
        /\ DOMAIN resp.vehicles = {}
        /\ resp.note # "None"
        /\ writes = {}

\* C6: every idx written by a live request lies in 0 .. len(itinerary) - 2 of
\* the itinerary the request read, whatever idx the document held before.
C6_WrittenIdxInRange ==
    \A w \in writes :
        /\ 0 <= w.idx
        /\ w.idx <= Len(GetLineItinerary(resp.line_id)) - 2

\* a request wrote a checkpoint for a vehicle whose stored idx was negative,
\* and one for a vehicle whose stored idx was beyond the end of the itinerary
C6_Witness ==
    /\ writes # {}
    /\ \E v \in DOMAIN resp.vehicles :
          /\ resp.vehicles[v].stored_idx > Len(GetLineItinerary(resp.line_id)) - 2
          /\ resp.vehicles[v].idx = Len(GetLineItinerary(resp.line_id)) - 2
          /\ \E w \in writes : w.vehicle_id = v /\ w.idx = resp.vehicles[v].idx

C6_WitnessNegative ==
    /\ writes # {}
    /\ \E v \in DOMAIN resp.vehicles :
          /\ resp.vehicles[v].stored_idx < 0
          /\ \E w \in writes : w.vehicle_id = v /\ w.idx = 0

\* C7: every progress fraction of a response lies in [0, 1], and it is 0,
\* with no location, when the departed stop or the next stop has no coordinates.
C7_ProgressBounds ==
    \A v \in DOMAIN resp.vehicles :
        LET p == resp.vehicles[v]
        IN  /\ p.progress.den > 0
            /\ 0 <= p.progress.num
            /\ p.progress.num <= p.progress.den
            /\ (p.from_stop \notin stop_coords \/ p.to_stop \notin stop_coords)
                  => (p.progress.num = 0 /\ p.loc = << >>)

\* a response with a vehicle part-way through a segment one of whose stops has
\* no coordinates, and one with a vehicle whose segment starts in the future
C7_Witness ==
    \E v \in DOMAIN resp.vehicles :
        LET p == resp.vehicles[v]
        IN  /\ ~p.raised
            /\ p.elapsed > 0
            /\ (p.from_stop \notin stop_coords \/ p.to_stop \notin stop_coords)
            /\ p.progress.num = 0

C7_WitnessClamped ==
    \E v \in DOMAIN resp.vehicles :
        LET p == resp.vehicles[v]
        IN  /\ p.elapsed < 0
            /\ p.loc # << >>
            /\ p.progress.num = 0

\* C9: a request (whose read of the line document returned) for a line whose
\* itinerary is missing or has fewer than 2 stops reports the error, queries no
\* vehicles and leaves every vehicle document (checkpoint and lastKnown) as
\* it was.
C9_TooShortItinerary ==
    [][(resp'.kind \notin {"none", "store_failed"}
           /\ Len(GetLineItinerary(resp'.line_id)) < 2) =>
          /\ resp'.kind = "error"
          /\ ~resp'.queried
          /\ writes' = {}
          /\ vehicles' = vehicles]_vars

\* a request answered with the error for a line with a 1-stop itinerary that
\* has a vehicle with a stored checkpoint
C9_Witness ==
    /\ resp.kind = "error"
    /\ Len(GetLineItinerary(resp.line_id)) = 1
    /\ \E v \in VehicleIds :
          /\ vehicles[v].line = resp.line_id
          /\ "segment_start_ts" \in DOMAIN vehicles[v].sim

\* ------------------------------------------------------------------------
\* Properties of the route requests
\* ------------------------------------------------------------------------
\* the walks of k relationships from stop o that use no relationship twice,
\* each relationship taken in either direction
ExtendTrails(g, o, trails) ==
    UNION {{Append(t, st) :
               st \in {x \in StepsFrom(g, IF t = << >> THEN o ELSE t[Len(t)].to) :
                         \A i \in 1..Len(t) : t[i].rel # x.rel}} :
           t \in trails}

RECURSIVE TrailsFrom(_, _, _)
TrailsFrom(g, o, k) ==
    IF k = 0 THEN {<< >>} ELSE ExtendTrails(g, o, TrailsFrom(g, o, k - 1))

\* the paths of exactly k relationships between the requested stops
PathsOfLen(k) ==
    {t \in TrailsFrom(graph, request.origin, k) : t[Len(t)].to = request.dest}

\* the least number of relationships, at most MaxHops, of a path between the
\* requested stops, searched from the walks of k relationships; 0 when no
\* path of at most MaxHops relationships joins them
RECURSIVE LeastHops(_, _)
LeastHops(trails, k) ==
    IF trails = {} THEN 0
    ELSE IF \E t \in trails : t[Len(t)].to = request.dest THEN k
    ELSE IF k >= MaxHops THEN 0
    ELSE LeastHops(ExtendTrails(graph, request.origin, trails), k + 1)

MinHopCount == LeastHops(TrailsFrom(graph, request.origin, 1), 1)

\* label of a relationship and line switches of a path, as the claim words them
C3_Label(r) ==
    IF r.type = "TRANSFER" THEN "TRANSFER"
    ELSE IF "line_id" \in DOMAIN r.props THEN r.props.line_id ELSE "UNKNOWN"

C3_SwitchCount(p) ==
    Cardinality({i \in 1..(Len(p) - 1) : C3_Label(p[i].rel) # C3_Label(p[i + 1].rel)})

\* C3: the path of a returned route is a minimal-hop path between the
\* requested stops, and no minimal-hop path has strictly fewer line switches.
C3_FewestSwitches ==
    route.kind = "ok" =>
        /\ route.path \in PathsOfLen(Len(route.path))
        /\ Len(route.path) = MinHopCount
        /\ \A q \in PathsOfLen(Len(route.path)) :
              C3_SwitchCount(route.path) <= C3_SwitchCount(q)

\* a route of two or more hops that has an equally short alternative with
\* more line switches
C3_Witness ==
    /\ route.kind = "ok"
    /\ Len(route.path) >= 2
    /\ \E q \in PathsOfLen(Len(route.path)) :
          C3_SwitchCount(q) > C3_SwitchCount(route.path)

\* stops 1 and 2 are joined by exactly one relationship, a NEXT relationship
\* of line L1 with avg_travel_s 300, and the route from 1 to 2 was requested
SingleRideScenario ==
    /\ route.kind # "none"
    /\ request = [origin |-> 1, dest |-> 2]
    /\ {r \in graph : {r.src, r.dst} = {1, 2}} =
          {[src |-> 1, dst |-> 2, type |-> "NEXT",
            props |-> [line_id |-> "L1", avg_travel_s |-> 300]]}

C10_HopBound ==
    route.kind # "none" =>
        LET least == MinHopCount
        IN  IF least = 0
            THEN route.kind = "notfound"
            ELSE /\ route.kind = "ok"
                 /\ route.total_hops = least
                 /\ 1 <= route.total_hops
                 /\ route.total_hops <= MaxHops

\* a route of exactly MaxHops hops
C10_Witness ==
    /\ route.kind = "ok"
    /\ route.total_hops = MaxHops

\* NotFound for two stops that are joined, but only by a longer path
C10_WitnessTooFar ==
    /\ route.kind = "notfound"
    /\ Cardinality(graph) > MaxHops
    /\ {request.origin, request.dest} = {1, Cardinality(stops)}

\* C11: handling a route request leaves every store unchanged: the graph, the
\* relational and the document store, the user_profiles collection included.
C11_RouteNoWrites ==
    [][route' # route =>
          /\ graph' = graph
          /\ stops' = stops
          /\ user_profiles' = user_profiles
          /\ liveVars' = liveVars]_vars

\* C12: a vehicle id is a key of the active-assignment map of a request for
\* line L at instant now iff some driver_assignments row of L and that vehicle
\* has start_ts <= now and no end_ts or now < end_ts; and the lookup gives a
\* map for every line, it never fails (while the store answers).
C12_ActiveWindow ==
    resp.kind \notin {"none", "error", "store_failed"} =>
        /\ resp.kind # "lookup_failed"
        /\ resp.active =
              {v \in VehicleIds :
                  \E r \in driver_assignments :
                      /\ r.line_id = resp.line_id
                      /\ r.vehicle_id = v
                      /\ r.start_ts <= resp.now
                      /\ (r.end_ts = NoTs \/ resp.now < r.end_ts)}

\* the window rule alone, for the requests whose lookup answered
C12_WindowWhenAnswered ==
    resp.kind \notin {"none", "error", "store_failed", "lookup_failed"} =>
        resp.active =
            {v \in VehicleIds :
                \E r \in driver_assignments :
                    /\ r.line_id = resp.line_id
                    /\ r.vehicle_id = v
                    /\ r.start_ts <= resp.now
                    /\ (r.end_ts = NoTs \/ resp.now < r.end_ts)}

\* ------------------------------------------------------------------------
\* Further properties of _advance_segment
\* ------------------------------------------------------------------------
\* the segment_start the last call worked from (now when none was stored) and
\* the idx it started at, after the clamp
StartOfLastCall ==
    IF advIn.segment_start = NoTs THEN advNow ELSE advIn.segment_start

ClampedIdxOfLastCall ==
    IF advIn.idx < 0 THEN 0
    ELSE IF advIn.idx > Len(advItin) - 2 THEN Len(advItin) - 2
    ELSE advIn.idx

\* travel time of the n segments that follow segment idx (inclusive) in route
\* order, segment 0 following the last one
RECURSIVE ConsumedTravel(_, _, _)
ConsumedTravel(itinerary, idx, n) ==
    IF n = 0 THEN 0
    ELSE TravelS(itinerary, idx)
         + ConsumedTravel(itinerary, (idx + 1) % (Len(itinerary) - 1), n - 1)

\* C13: after a call on an itinerary of at least 2 stops from a checkpoint
\* with segment_start <= now, the returned checkpoint has
\* segment_start' <= now < segment_start' + travel_s(idx'),
\* elapsed = now - segment_start', and segment_start' - segment_start is the
\* travel time of the consumed segments, in route order from the clamped idx.
C13_Landing ==
    (advKind # "none" /\ Len(advItin) >= 2 /\ StartOfLastCall <= advNow) =>
        /\ advRet.segment_start <= advNow
        /\ advNow < advRet.segment_start + TravelS(advItin, advRet.idx)
        /\ advRet.elapsed = advNow - advRet.segment_start
        /\ advRet.idx = (ClampedIdxOfLastCall + advRet.steps) % (Len(advItin) - 1)
        /\ advRet.segment_start - StartOfLastCall =
              ConsumedTravel(advItin, ClampedIdxOfLastCall, advRet.steps)

\* a call that consumed segments of different travel times, across a wrap,
\* and landed part-way through a segment
C13_Witness ==
    /\ advKind # "none"
    /\ Len(advItin) >= 3
    /\ StartOfLastCall <= advNow
    /\ advRet.steps >= 3
    /\ advRet.wraps >= 1
    /\ advRet.elapsed > 0
    /\ TravelS(advItin, 0) # TravelS(advItin, 1)

\* C17: for a checkpoint cp with segment_start <= t1 and t1 <= t2, advancing
\* cp to t1 and then the result to t2 returns the same idx, segment_start and
\* elapsed as advancing cp directly to t2.
C17_PathIndependent ==
    [][(advKind # "none" /\ advIn.segment_start # NoTs
                         /\ advIn.segment_start <= advNow) =>
          LET direct == AdvanceSegment(advItin, advIn.idx, advIn.segment_start,
                                       advNow')
          IN  /\ advRet'.idx = direct.idx
              /\ advRet'.segment_start = direct.segment_start
              /\ advRet'.elapsed = direct.elapsed]_vars

\* two calls in a row that both consumed segments, the second at a later now
\* and across a wrap
C17_Witness ==
    /\ advPre
    /\ advKind = "later"
    /\ Len(advItin) >= 3
    /\ advIn.segment_start >= 100
    /\ advRet.steps >= 1
    /\ advRet.wraps >= 1

\* the smallest effective travel time of the segments of an itinerary
MinTravel(itinerary) ==
    LET all == {TravelS(itinerary, i) : i \in 0..(Len(itinerary) - 2)}
    IN  CHOOSE m \in all : \A x \in all : m <= x

\* C20 as stated: on an itinerary of at least 2 entries, for every stored idx
\* and every pair (segment_start, now), the call ends after at most
\* (now - segment_start) / (smallest effective travel time) + 1 passes of the
\* loop (steps + 1 passes: one per consumed segment and the returning one).
C20_IterationsAsStated ==
    (advKind # "none" /\ Len(advItin) >= 2) =>
        advRet.steps * MinTravel(advItin) <= advNow - StartOfLastCall

\* C20 amended: the same with the elapsed time taken as 0 when segment_start
\* is later than now (the loop then makes its one returning pass).
C20_Iterations ==
    (advKind # "none" /\ Len(advItin) >= 2) =>
        advRet.steps * MinTravel(advItin) <= Max(0, advNow - StartOfLastCall)

\* a call that made the most passes its bound allows, on an itinerary with a
\* missing avgStopSec, and a call from a segment_start later than now
C20_Witness ==
    /\ advKind # "none"
    /\ Len(advItin) >= 3
    /\ \E i \in 2..(Len(advItin) - 1) : "avgStopSec" \notin DOMAIN advItin[i]
    /\ advRet.steps >= 2
    /\ (advRet.steps + 1) * MinTravel(advItin) > advNow - StartOfLastCall

C20_WitnessFutureStart ==
    /\ advKind # "none"
    /\ Len(advItin) >= 2
    /\ StartOfLastCall > advNow
    /\ advRet.steps = 0

\* ------------------------------------------------------------------------
\* Further properties of the live-tracking requests
\* ------------------------------------------------------------------------
\* C14: the travel time a response applies to the segment from stop i-1 to
\* stop i of the itinerary is entry i's avgStopSec, the scheduled time between
\* the two stops; the first entry's placeholder is never a segment travel time.
C14_TravelTimeOfArrivalEntry ==
    \A v \in DOMAIN resp.vehicles :
        LET p         == resp.vehicles[v]
            itinerary == GetLineItinerary(resp.line_id)
        IN  ~p.raised =>
               /\ itinerary[p.idx + 2].stop_id = p.to_stop
               /\ p.travel_s = itinerary[p.idx + 2].avgStopSec

\* C19: a request that fails at a store read, before the checkpoint write of
\* a vehicle, leaves that vehicle's document (idx, segment_start_ts and
\* lastKnown) and every other store exactly as they were, so that a later
\* request starts from the same state as if the failed one had not been made.
C19_FailureLeavesCheckpoint ==
    [][resp'.kind \in {"store_failed", "lookup_failed"} =>
          /\ vehicles' = vehicles
          /\ writes' = {}
          /\ lines' = lines
          /\ stop_coords' = stop_coords
          /\ driver_assignments' = driver_assignments
          /\ clock' = clock]_vars

\* a request failed at a read, for a line with an itinerary and a vehicle whose
\* checkpoint and lastKnown an earlier request had written
C19_Witness ==
    /\ resp.kind = "store_failed"
    /\ Len(GetLineItinerary(resp.line_id)) >= 2
    /\ \E v \in VehicleIds :
          /\ vehicles[v].line = resp.line_id
          /\ "segment_start_ts" \in DOMAIN vehicles[v].sim
          /\ vehicles[v].lastKnown # << >>
          /\ vehicles[v].lastKnown.ts < clock

\* ------------------------------------------------------------------------
\* Properties of overlapping requests
\* ------------------------------------------------------------------------
\* what a request made at instant t, alone, would compute from document doc
SoloCall(doc, t) ==
    LET p == SimulateVehicle(doc, concItin, ConcCoords, t)
    IN  [idx |-> p.idx, segment_start_ts |-> p.segment_start_ts,
         elapsed |-> p.elapsed]

\* C15: whatever the overlapping requests have written so far, a request made
\* alone at a later instant t computes the same idx, segment_start and elapsed
\* as one made at t from the checkpoint stored before them.
C15_LostUpdateTolerance ==
    "segment_start_ts" \in DOMAIN concDoc0.sim =>
        \A t \in {u \in ConcTimes : u >= concClock} :
            SoloCall(concDoc, t) = SoloCall(concDoc0, t)

\* both requests read the same checkpoint, computed at different instants, and
\* the one with the earlier now wrote last, over a checkpoint further along
C15_Witness ==
    /\ "segment_start_ts" \in DOMAIN concDoc0.sim
    /\ \A r \in Requests : concReq[r].pc = "written"
    /\ \A r \in Requests : concReq[r].doc = concDoc0
    /\ \E r, q \in Requests :
          /\ concReq[r].now < concReq[q].now
          /\ concReq[r].sim.segment_start_ts < concReq[q].sim.segment_start_ts
          /\ concDoc.sim.segment_start_ts = concReq[r].sim.segment_start_ts
    /\ concClock > concDoc.sim.segment_start_ts + 300

\* C16: every checkpoint write stores a segment_start_ts not earlier than the
\* one stored just before it, and a lastKnown.ts not earlier than the stored one.
C16_NeverBackward ==
    [][/\ ("segment_start_ts" \in DOMAIN concDoc.sim
             => concDoc'.sim.segment_start_ts >= concDoc.sim.segment_start_ts)
       /\ (concDoc.lastKnown # << >>
             => concDoc'.lastKnown.ts >= concDoc.lastKnown.ts)]_vars

\* C18: the stored (idx, segment_start_ts) is always the pair one request
\* computed in one advancement call (or the pair stored before the requests).
C18_NeverTorn ==
    \/ concDoc.sim = concDoc0.sim
    \/ \E r \in Requests :
          /\ concReq[r].pc = "written"
          /\ concDoc.sim = [idx |-> concReq[r].sim.idx,
                            segment_start_ts |-> concReq[r].sim.segment_start_ts]

\* both requests have written, and they had computed different idx and
\* different segment_start_ts
C18_Witness ==
    /\ \A r \in Requests : concReq[r].pc = "written"
    /\ \E r, q \in Requests :
          /\ concReq[r].sim.idx # concReq[q].sim.idx
          /\ concReq[r].sim.segment_start_ts # concReq[q].sim.segment_start_ts
    /\ concDoc.sim # concDoc0.sim

\* ------------------------------------------------------------------------
\* Location and cold start of the live-tracking requests
\* ------------------------------------------------------------------------
\* the vehicles a request has answered for without an IndexError
Answered ==
    IF resp.kind \in {"ok", "exception"}
    THEN {v \in DOMAIN resp.vehicles : ~resp.vehicles[v].raised}
    ELSE {}

\* the coordinates of the departed stop or of the next stop of a payload are
\* not in the stops collection
CoordsUnavailable(p) ==
    p.from_stop \notin stop_coords \/ p.to_stop \notin stop_coords

\* C21: when the coordinates of the departed stop or of the next stop are
\* unavailable, the write stores the new idx and segment_start_ts, leaves the
\* stored lastKnown as it was, and the returned snapshot has no location.
C21_LocationFrame ==
    [][\A v \in Answered' :
          CoordsUnavailable(resp'.vehicles[v]) =>
             /\ vehicles'[v].sim =
                   [idx |-> resp'.vehicles[v].idx,
                    segment_start_ts |-> resp'.vehicles[v].segment_start_ts]
             /\ vehicles'[v].lastKnown = vehicles[v].lastKnown
             /\ resp'.vehicles[v].loc = << >>]_vars

\* a vehicle that had a lastKnown from an earlier request was moved to another
\* segment, one of whose stops has no coordinates, and kept that lastKnown
C21_Witness ==
    \E v \in Answered :
        /\ CoordsUnavailable(resp.vehicles[v])
        /\ resp.vehicles[v].stored_idx # resp.vehicles[v].idx
        /\ vehicles[v].sim.idx = resp.vehicles[v].idx
        /\ vehicles[v].lastKnown # << >>
        /\ vehicles[v].lastKnown.ts < resp.now

\* the segment a cold start is on: the stored idx (or 0) clamped to the
\* segments of the itinerary
ColdIdx(sim, itinerary) == Max(0, Min(StoredIdx(sim), Len(itinerary) - 2))

\* what a request answers and stores for a vehicle whose sim has no
\* segment_start_ts, apart from the location
ColdStartFacts(v) ==
    LET itinerary == GetLineItinerary(resp'.line_id)
        c         == ColdIdx(vehicles[v].sim, itinerary)
        p         == resp'.vehicles[v]
    IN  /\ p.idx = c
        /\ p.elapsed = 0
        /\ p.progress = [num |-> 0, den |-> 1]
        /\ p.from_stop = itinerary[c + 1].stop_id
        /\ p.eta_to_next_stop_s = TravelS(itinerary, c)
        /\ vehicles'[v].sim = [idx |-> c, segment_start_ts |-> resp'.now]

\* C22 as stated: a vehicle without segment_start_ts is answered with
\* elapsed 0 and progress 0 on the clamped segment, is located exactly at the
\* departed stop, has the full travel time as ETA, and (that idx, now) is stored.
C22_ColdStartAsStated ==
    [][\A v \in Answered' :
          "segment_start_ts" \notin DOMAIN vehicles[v].sim =>
             /\ ColdStartFacts(v)
             /\ resp'.vehicles[v].loc = StopCoord(resp'.vehicles[v].from_stop)]_vars

\* C22: the same, with the location at the departed stop when both stops of
\* the segment have coordinates and no location otherwise.
C22_ColdStart ==
    [][\A v \in Answered' :
          "segment_start_ts" \notin DOMAIN vehicles[v].sim =>
             /\ ColdStartFacts(v)
             /\ resp'.vehicles[v].loc =
                   IF CoordsUnavailable(resp'.vehicles[v]) THEN << >>
                   ELSE StopCoord(resp'.vehicles[v].from_stop)]_vars

\* a cold start at a now after the epoch, from a stored idx beyond the last
\* segment, located at the departed stop
C22_Witness ==
    \E v \in Answered :
        /\ ~resp.vehicles[v].had_start
        /\ resp.now > 0
        /\ resp.vehicles[v].stored_idx > resp.vehicles[v].idx
        /\ resp.vehicles[v].loc = StopCoord(resp.vehicles[v].from_stop)
        /\ vehicles[v].sim.segment_start_ts = resp.now

\* a cold start on a segment without coordinates
C22_WitnessNoLocation ==
    \E v \in Answered :
        /\ ~resp.vehicles[v].had_start
        /\ resp.vehicles[v].loc = << >>

\* ------------------------------------------------------------------------
\* Further properties of the route requests
\* ------------------------------------------------------------------------
\* a numeric property of a relationship of the graph, 0 when it has none
SecondsOf(r, key) == IF key \in DOMAIN r.props THEN r.props[key] ELSE 0

\* the seconds of the relationships of a path from its k-th on
RECURSIVE PathSecondsFrom(_, _)
PathSecondsFrom(path, k) ==
    IF k > Len(path) THEN 0
    ELSE SecondsOf(path[k].rel, "avg_travel_s") + SecondsOf(path[k].rel, "walk_s")
         + PathSecondsFrom(path, k + 1)

\* C23: in every returned route each segment's cost_s is its avg_travel_s plus
\* its walk_s, each being the relationship's property or 0, and total_travel_s
\* is the sum of cost_s over the segments.
C23_TotalTravelTime ==
    route.kind = "ok" =>
        /\ \A i \in 1..Len(route.segments) :
              LET seg == route.segments[i]
              IN  /\ seg.avg_travel_s = SecondsOf(route.path[i].rel, "avg_travel_s")
                  /\ seg.walk_s = SecondsOf(route.path[i].rel, "walk_s")
                  /\ seg.cost_s = seg.avg_travel_s + seg.walk_s
        /\ Len(route.segments) = Len(route.path)
        /\ route.total_travel_s = PathSecondsFrom(route.path, 1)

\* a route of a ride and a walk: both kinds of seconds are in the total
C23_Witness ==
    /\ route.kind = "ok"
    /\ \E i, j \in 1..Len(route.segments) :
          /\ route.segments[i].avg_travel_s > 0 /\ route.segments[i].walk_s = 0
          /\ route.segments[j].walk_s > 0 /\ route.segments[j].avg_travel_s = 0
    /\ route.total_travel_s > route.segments[1].cost_s

\* the line ids carried by the ride (non-TRANSFER) relationships of a path
RideLineIds(path) ==
    {path[i].rel.props.line_id :
        i \in {j \in 1..Len(path) : /\ path[j].rel.type # "TRANSFER"
                                    /\ "line_id" \in DOMAIN path[j].rel.props}}

C25_TransferLabel ==
    route.kind = "ok" =>
        \A i \in 1..Len(route.segments) :
            (/\ route.path[i].rel.type = "TRANSFER"
             /\ SecondsOf(route.path[i].rel, "walk_s") # 0)
                => route.segments[i].line_id = "WALK TO TRANSFER"

\* C29: in every returned route there are total_hops segments, the first
\* leaves the requested origin, the last arrives at the requested destination,
\* and each segment arrives where the next one leaves, whatever the stored
\* direction of the relationships.
C29_SegmentChain ==
    route.kind = "ok" =>
        LET segs == route.segments
            n    == Len(segs)
        IN  /\ n = route.total_hops
            /\ n >= 1
            /\ segs[1].from_stop = request.origin
            /\ segs[n].to_stop = request.dest
            /\ \A i \in 1..(n - 1) : segs[i].to_stop = segs[i + 1].from_stop
            /\ \A i \in 1..n :
                  {segs[i].from_stop, segs[i].to_stop} =
                     {route.path[i].rel.src, route.path[i].rel.dst}

\* a route of two or more hops, one along and one against the stored direction
C29_Witness ==
    /\ route.kind = "ok"
    /\ Len(route.segments) >= 2
    /\ \E i, j \in 1..Len(route.segments) :
          /\ route.segments[i].from_stop = route.path[i].rel.dst
          /\ route.segments[j].from_stop = route.path[j].rel.src

\* ------------------------------------------------------------------------
\* Periodicity of _advance_segment
\* ------------------------------------------------------------------------
\* the time of one round of the loop line: the travel times of segments
\* 0 .. len(itinerary) - 2
RoundTime(itinerary) == ConsumedTravel(itinerary, 0, Len(itinerary) - 1)

\* C30: for a checkpoint with segment_start <= now, advancing it to
\* now + P, P the time of one round, returns the idx and the elapsed of
\* advancing it to now, and a segment_start larger by exactly P.
C30_Periodic ==
    (/\ advKind # "none"
     /\ Len(advItin) >= 2
     /\ advIn.segment_start # NoTs
     /\ advIn.segment_start <= advNow) =>
        LET P     == RoundTime(advItin)
            round == AdvanceSegment(advItin, advIn.idx, advIn.segment_start,
                                    advNow + P)
        IN  /\ round.idx = advRet.idx
            /\ round.elapsed = advRet.elapsed
            /\ round.segment_start = advRet.segment_start + P

\* a call from a checkpoint in the past on a line of segments of different
\* travel times, landing part-way through a segment other than the stored one
C30_Witness ==
    /\ advKind # "none"
    /\ Len(advItin) >= 3
    /\ advIn.segment_start # NoTs
    /\ advIn.segment_start < advNow
    /\ TravelS(advItin, 0) # TravelS(advItin, 1)
    /\ advRet.steps >= 1
    /\ advRet.elapsed > 0
    /\ AdvanceSegment(advItin, advIn.idx, advIn.segment_start,
                      advNow + RoundTime(advItin)).wraps > advRet.wraps

\* ------------------------------------------------------------------------
\* The two live-tracking handlers side by side
\* ------------------------------------------------------------------------
\* the checkpoints a request has written: vehicle, idx, segment_start_ts
CheckpointWrites(ws) ==
    {[vehicle_id |-> w.vehicle_id, idx |-> w.idx,
      segment_start_ts |-> w.segment_start_ts] : w \in ws}

\* what the request in resp has answered and written
GivenAnswer(r, ws) ==
    [ids |-> DOMAIN r.vehicles, writes |-> CheckpointWrites(ws)]

\* what the named handler answers and writes for line l from the current
\* stores at the current now
AnswerOf(h, l) ==
    LET a == IF h = "calculate_positions"
             THEN CalculatePositionsAnswer(l)
             ELSE LiveLineAnswer(l)
    IN  [ids |-> a.ids, writes |-> CheckpointWrites(a.writes)]

OtherHandler(h) ==
    IF h = "calculate_positions" THEN "live_line" ELSE "calculate_positions"

\* C28: whenever one of calculate_positions and live_line answers a request,
\* the other one, from the same itinerary, assignments, vehicle documents and
\* now, answers for the same vehicle ids and writes the same checkpoints.
C28_HandlersAgree ==
    [][resp'.kind = "ok" =>
          GivenAnswer(resp', writes') =
             AnswerOf(OtherHandler(resp'.handler), resp'.line_id)]_vars

\* the same, for requests made while the line has an active assignment
C28_HandlersAgreeWhenActive ==
    [][(resp'.kind = "ok" /\ resp'.active # {}) =>
          GivenAnswer(resp', writes') =
             AnswerOf(OtherHandler(resp'.handler), resp'.line_id)]_vars

\* every answered request gives the answer of its own handler
AnswersAreTheHandlers ==
    [][resp'.kind = "ok" =>
          GivenAnswer(resp', writes') =
             AnswerOf(resp'.handler, resp'.line_id)]_vars

\* ------------------------------------------------------------------------
\* Properties of overlapping route requests
\* ------------------------------------------------------------------------
\* the responses a request for the stops of r gives when it runs alone
AloneResponses(r) ==
    LET origin == routeReqs[r].origin
        dest   == routeReqs[r].dest
        paths  == QueryPaths(graph, origin, dest)
    IN  IF paths = {}
        THEN {[NoRoute EXCEPT !.kind = "notfound", !.handler = "get_route",
                              !.origin_stop_id = origin, !.dest_stop_id = dest]}
        ELSE {RouteResult("get_route", origin, dest, path,
                          ApiSegments(path), ApiLinesUsed(path)) : path \in paths}

\* C26: under every interleaving of two /api/route requests, also of one user
\* without a profile document, each finished request has a response it gives
\* when run alone, and none has failed.
C26_RouteRequestsIndependent ==
    \A r \in Requests :
        routeReqs[r].pc = "done" =>
            /\ routeReqs[r].response.kind # "error"
            /\ routeReqs[r].response \in AloneResponses(r)

\* a request fails only at the insert of a profile another request has
\* inserted since its find_one, and otherwise answers as when run alone
C26_OnlyTheSecondInsertFails ==
    \A r \in Requests :
        routeReqs[r].pc = "done" =>
            \/ routeReqs[r].response \in AloneResponses(r)
            \/ /\ routeReqs[r].response.kind = "error"
               /\ ~routeReqs[r].has_profile
               /\ CurrentUser \in DOMAIN user_profiles
               /\ \E q \in Requests \ {r} :
                     routeReqs[q].pc \in {"ensured", "done"}

\* ------------------------------------------------------------------------
\* Enrichment of a route from rows and documents with gaps
\* ------------------------------------------------------------------------
\* the value a field of a line is to have: the relational one when there is
\* one, otherwise the one of the document, otherwise null
ExpectedLineField(lid, key) ==
    IF lid \in DOMAIN line_rows /\ line_rows[lid][key] # Null
    THEN line_rows[lid][key]
    ELSE IF lid \in DOMAIN line_docs /\ key \in DOMAIN line_docs[lid]
    THEN line_docs[lid][key]
    ELSE Null

\* the stop has no row, or a row without lat or lon
LacksCoordinates(stop_id) ==
    \/ stop_id \notin DOMAIN stop_rows
    \/ stop_rows[stop_id].lat = NoCoord
    \/ stop_rows[stop_id].lon = NoCoord

\* C27: a request whose path exists is answered whatever rows and documents
\* are missing; lines_enriched has one entry per id of lines_used, in which
\* code and name are the relational value when present, otherwise the
\* document value, otherwise null; a segment with an endpoint without
\* coordinates has distance 0.
C27_DegradedEnrichment ==
    /\ route.kind # "none" =>
          (route.kind = "ok" <=> MinHopCount > 0)
    /\ route.kind = "ok" =>
          /\ Len(route.lines_enriched) = Len(route.lines_used)
          /\ \A i \in 1..Len(route.lines_used) :
                LET lid == route.lines_used[i]
                    e   == route.lines_enriched[i]
                IN  /\ e.line_id = lid
                    /\ e.code = ExpectedLineField(lid, "code")
                    /\ e.name = ExpectedLineField(lid, "name")
          /\ \A i \in 1..Len(route.segments) :
                (\/ LacksCoordinates(route.segments[i].from_stop)
                 \/ LacksCoordinates(route.segments[i].to_stop))
                    => route.segments[i].dist_km = 0

\* a route over line L1, which has no row but a document without a name, and
\* over a segment one of whose stops has no coordinates
C27_Witness ==
    /\ route.kind = "ok"
    /\ "L1" \notin DOMAIN line_rows
    /\ "L1" \in DOMAIN line_docs
    /\ \E i \in 1..Len(route.lines_enriched) :
          /\ route.lines_enriched[i].line_id = "L1"
          /\ route.lines_enriched[i].code = "doc code"
          /\ route.lines_enriched[i].name = Null
    /\ \E i \in 1..Len(route.segments) :
          /\ LacksCoordinates(route.segments[i].to_stop)
          /\ route.segments[i].dist_km = 0

====
